---------------------------- MODULE Spec2Model ----------------------------
(* Model of src/app.py: the onboarding-sheet verifier.                      *)
(*                                                                          *)
(* Text is a sequence of one-character strings, so that the string          *)
(* operations of the source (strip, re.sub, str.contains, str.upper,        *)
(* str.replace, isdigit) are computed character by character.  A missing    *)
(* cell (pandas NaN) is the value NaN.                                      *)
(*                                                                          *)
(* Three specifications share the module:                                   *)
(*   SpecNorm  applies normalize_name to bounded inputs;                    *)
(*   SpecLoad  applies get_clean_data to bounded sheets;                    *)
(*   Spec      runs the main pipeline over the results of the loads.        *)
EXTENDS Integers, Sequences, FiniteSets, TLC

VARIABLES
    \* normalize_name harness
    npc, name, once, twice,
    \* get_clean_data harness
    lpc, readable, sheet, matching_rows, header_row_idx, df, err,
    \* main pipeline (src/app.py:183-292)
    pc, visible_sheets, quality_score, error_log, logic_log,
    valid_ingredients_set, df_stock, df_man, df_prod, df_rec, df_emp,
    df_prod_global, df_mod_global

normVars == <<npc, name, once, twice>>
loadVars == <<lpc, readable, sheet, matching_rows, header_row_idx, df, err>>
runVars  == <<pc, visible_sheets, quality_score, error_log, logic_log,
              valid_ingredients_set, df_stock, df_man, df_prod, df_rec,
              df_emp, df_prod_global, df_mod_global>>
vars == <<normVars, loadVars, runVars>>

----------------------------------------------------------------------------
(* Bounds of the model.                                                     *)

\* Longest input of the normalize_name harness, in tokens.
MaxTokens == 3
\* Rows of a sheet body in the get_clean_data harness.
MaxBodyRows == 3
\* Rows of the Stock and Products tables in the pipeline.
MaxRows == 2
\* Rows of the Manufactured, Recipes, Modifiers and Employees tables.
MaxSideRows == 1

----------------------------------------------------------------------------
(* Text.                                                                    *)

\* pandas NaN / Python None in a cell.
NaN == <<"NaN">>
\* str(NaN)
StrNaN == <<"n", "a", "n">>

LowerChars == <<"a","b","c","d","e","f","g","h","i","j","k","l","m",
                "n","o","p","q","r","s","t","u","v","w","x","y","z">>
UpperChars == <<"A","B","C","D","E","F","G","H","I","J","K","L","M",
                "N","O","P","Q","R","S","T","U","V","W","X","Y","Z">>
Digits == {"0","1","2","3","4","5","6","7","8","9"}
Whitespace == {" "}

ToUpper == [c \in {LowerChars[i] : i \in 1..26} |->
               UpperChars[CHOOSE i \in 1..26 : LowerChars[i] = c]]
ToLower == [c \in {UpperChars[i] : i \in 1..26} |->
               LowerChars[CHOOSE i \in 1..26 : UpperChars[i] = c]]

UpperChar(c) == IF c \in DOMAIN ToUpper THEN ToUpper[c] ELSE c

LowerChar(c) == IF c \in DOMAIN ToLower THEN ToLower[c] ELSE c

\* str.upper()
Upper(s) == [i \in 1..Len(s) |-> UpperChar(s[i])]
\* str.lower()
Lower(s) == [i \in 1..Len(s) |-> LowerChar(s[i])]

\* str(x): a missing value prints as "nan".
Str(x) == IF x = NaN THEN StrNaN ELSE x

RECURSIVE LStrip(_)
LStrip(s) ==
    IF s # <<>> /\ Head(s) \in Whitespace THEN LStrip(Tail(s)) ELSE s

RECURSIVE RStrip(_)
RStrip(s) ==
    IF s # <<>> /\ s[Len(s)] \in Whitespace
    THEN RStrip(SubSeq(s, 1, Len(s) - 1))
    ELSE s

\* str.strip()
Strip(s) == RStrip(LStrip(s))

\* s.startswith(p), comparing case-insensitively when ci.
StartsWith(s, p, ci) ==
    /\ Len(s) >= Len(p)
    /\ IF ci THEN Upper(SubSeq(s, 1, Len(p))) = Upper(p)
             ELSE SubSeq(s, 1, Len(p)) = p

\* re.sub of a literal pattern by '' / str.replace(p, ''): the leftmost
\* match is removed and the scan resumes after it (matches do not overlap
\* and the text produced is not scanned again).
RECURSIVE RemoveAll(_, _, _)
RemoveAll(s, p, ci) ==
    IF s = <<>> THEN <<>>
    ELSE IF StartsWith(s, p, ci)
         THEN RemoveAll(SubSeq(s, Len(p) + 1, Len(s)), p, ci)
         ELSE <<Head(s)>> \o RemoveAll(Tail(s), p, ci)

\* p in s
Contains(s, p) ==
    \E i \in 1..(Len(s) - Len(p) + 1) : SubSeq(s, i, i + Len(p) - 1) = p

\* re.sub(r'\s+', ' ', s)
RECURSIVE CollapseWS(_)
CollapseWS(s) ==
    IF s = <<>> THEN <<>>
    ELSE IF Head(s) \in Whitespace
         THEN <<" ">> \o CollapseWS(LStrip(s))
         ELSE <<Head(s)>> \o CollapseWS(Tail(s))

\* str.isdigit()
IsDigit(s) == s # <<>> /\ \A i \in 1..Len(s) : s[i] \in Digits

\* The sequences over S of length at most n.
SeqUpTo(S, n) == UNION {[1..k -> S] : k \in 0..n}

RECURSIVE Flatten(_)
Flatten(ss) == IF ss = <<>> THEN <<>> ELSE Head(ss) \o Flatten(Tail(ss))

----------------------------------------------------------------------------
(* normalize_name, src/app.py:63-68.                                        *)

TagRaw == <<"(", "R", "A", "W", ")">>
TagMan == <<"(", "M", "A", "N", ")">>

normalize_name(x) ==
    IF x = NaN THEN <<>>
    ELSE Strip(RemoveAll(RemoveAll(Strip(Str(x)), TagRaw, TRUE), TagMan, TRUE))

\* Pieces the harness builds its inputs from: the two tags (one in lower
\* case), halves of a tag that close around another tag, a blank, a letter.
NameTokens ==
    { TagRaw, <<"(", "m", "a", "n", ")">>,
      <<"(", "R">>, <<"A", "W", ")">>, <<"(", "R", "A">>, <<"W", ")">>,
      <<" ">>, <<"x">> }

NameInputs == {NaN} \cup {Flatten(ts) : ts \in SeqUpTo(NameTokens, MaxTokens)}

\* once = normalize_name(name)
NormalizeOnce ==
    /\ npc = "start"
    /\ once' = normalize_name(name)
    /\ npc' = "once"
    /\ UNCHANGED <<name, twice>>
    /\ UNCHANGED <<loadVars, runVars>>

\* twice = normalize_name(once)
NormalizeTwice ==
    /\ npc = "once"
    /\ twice' = normalize_name(once)
    /\ npc' = "twice"
    /\ UNCHANGED <<name, once>>
    /\ UNCHANGED <<loadVars, runVars>>

NormNext == NormalizeOnce \/ NormalizeTwice

----------------------------------------------------------------------------
(* get_clean_data, src/app.py:77-105.                                       *)
(*                                                                          *)
(* A sheet is a sequence of physical rows, a row a sequence of cells.       *)
(* Rows are numbered from 0 as pandas numbers them; sheet[i + 1] is row i.  *)

\* nrows=50 of the header scan.
NROWS == 50

\* Python None, where a text is expected.
None == <<"None">>

\* The marker of the Products sheet (src/app.py:236).
ProductMarker == <<"P", "r", "o", "d", "u", "c", "t", " ", "N", "a", "m", "e">>

NoTable == [state |-> "None", columns |-> <<>>, rows |-> <<>>]

Min(a, b) == IF a < b THEN a ELSE b

\* pd.read_excel(file, sheet_name, header=None, nrows=50)
df_scan(sh) == SubSeq(sh, 1, Min(Len(sh), NROWS))

\* row.astype(str).str.replace(r'\s+', ' ', regex=True).str.strip()
row_str(row) == [j \in 1..Len(row) |-> Strip(CollapseWS(Str(row[j])))]

\* row_str.str.contains(unique_col_identifier, case=False, na=False).any()
RowMatches(row, marker) ==
    \E j \in 1..Len(row) : Contains(Upper(row_str(row)[j]), Upper(marker))

\* The loop of src/app.py:82-85 from row i on: matching_rows.append(i).
RECURSIVE ScanFrom(_, _, _, _)
ScanFrom(rows, i, marker, acc) ==
    IF i >= Len(rows) THEN acc
    ELSE ScanFrom(rows, i + 1, marker,
                  IF RowMatches(rows[i + 1], marker) THEN Append(acc, i) ELSE acc)

\* A faulty variant: the first header wins.
FirstHeader(matching) == matching[1]

\* header_row_idx = matching_rows[-1]
LastHeader(matching) == matching[Len(matching)]

DigitText == <<"0", "1", "2", "3", "4", "5", "6", "7", "8", "9">>

\* The name pandas gives column j (from 0) of the header row, then
\* df.columns.astype(str).str.strip(): an empty header cell is "Unnamed: j".
ColumnName(cell, j) ==
    IF cell = NaN
    THEN <<"U", "n", "n", "a", "m", "e", "d", ":", " ">> \o <<DigitText[j + 1]>>
    ELSE Strip(Str(cell))

Columns(header) == [j \in 1..Len(header) |-> ColumnName(header[j], j - 1)]

\* next((c for c in df.columns if marker.lower() in c.lower()), None):
\* the position of the column, 0 for None.
TargetCol(columns, marker) ==
    LET hits == {j \in 1..Len(columns) :
                    Contains(Lower(columns[j]), Lower(marker))}
    IN  IF hits = {} THEN 0
        ELSE CHOOSE j \in hits : \A k \in hits : j <= k

Example == <<"E", "X", "A", "M", "P", "L", "E">>

\* The three filters of src/app.py:97-99 on the identity value.
KeepRow(v) ==
    /\ v # NaN
    /\ Strip(Str(v)) # <<>>
    /\ Upper(Str(v)) # Example

\* The rows below the header that survive the identity check, each with
\* its __excel_row__ = index + header_row_idx + 2.
RECURSIVE DataRows(_, _, _, _)
DataRows(sh, header_idx, target, index) ==
    IF header_idx + 1 + index >= Len(sh) THEN <<>>
    ELSE LET cells == sh[header_idx + 2 + index]
             rest  == DataRows(sh, header_idx, target, index + 1)
         IN  IF target = 0 \/ KeepRow(cells[target])
             THEN <<[cells |-> cells,
                     excel_row |-> index + header_idx + 2]>> \o rest
             ELSE rest

\* The table get_clean_data builds once the header row is chosen.
LoadTable(sh, header_idx, marker) ==
    LET columns == Columns(sh[header_idx + 1])
    IN  [state |-> "df", columns |-> columns,
         rows |-> DataRows(sh, header_idx, TargetCol(columns, marker), 0)]

NotFoundError(marker) ==
    <<"Could not find header '">> \o marker \o <<"'">>

ReadError == <<"str(e)">>

\* Rows the harness builds sheets from: three header rows (the marker as
\* is; in lower case with doubled and surrounding blanks; in the second
\* column) and six data rows.
RowKinds ==
    { <<ProductMarker, <<"P", "r", "i", "c", "e">>>>,
      <<<<" ", "p", "r", "o", "d", "u", "c", "t", " ", " ", "n", "a", "m", "e", " ">>, NaN>>,
      <<NaN, ProductMarker>>,
      <<<<"B", "u", "r", "g", "e", "r">>, NaN>>,
      <<Example, NaN>>,
      <<<<" ", "e", "x", "a", "m", "p", "l", "e", " ">>, NaN>>,
      <<<<"E", "x", "a", "m", "p", "l", "e", "s">>, <<"B", "u", "r", "g", "e", "r">>>>,
      <<<<" ">>, <<"B", "u", "r", "g", "e", "r">>>>,
      <<NaN, NaN>> }

\* An empty row of the template above the body.
FillerRow == <<NaN, NaN>>

\* How many filler rows precede the body: none, or so many that the body
\* straddles or lies beyond the scan window.
Pads == {0, NROWS - 2, NROWS}

Sheets ==
    {[i \in 1..n |-> FillerRow] \o body :
        n \in Pads, body \in SeqUpTo(RowKinds, MaxBodyRows)}

\* get_clean_data(file, "Products(Finished Goods)", "Product Name") on a
\* file that cannot be read: the except branch, return None, str(e).
GetCleanDataRaises ==
    /\ lpc = "call"
    /\ ~readable
    /\ df' = NoTable
    /\ err' = ReadError
    /\ lpc' = "returned"
    /\ UNCHANGED <<readable, sheet, matching_rows, header_row_idx>>
    /\ UNCHANGED <<normVars, runVars>>

\* get_clean_data(file, "Products(Finished Goods)", "Product Name").
GetCleanData ==
    /\ lpc = "call"
    /\ readable
    /\ LET matching == ScanFrom(df_scan(sheet), 0, ProductMarker, <<>>)
       IN  /\ matching_rows' = matching
           /\ IF matching = <<>>
              THEN /\ header_row_idx' = header_row_idx
                   /\ df' = NoTable
                   /\ err' = NotFoundError(ProductMarker)
              ELSE /\ header_row_idx' = LastHeader(matching)
                   /\ df' = LoadTable(sheet, LastHeader(matching), ProductMarker)
                   /\ err' = None
    /\ lpc' = "returned"
    /\ UNCHANGED <<readable, sheet>>
    /\ UNCHANGED <<normVars, runVars>>

LoadNext == GetCleanData \/ GetCleanDataRaises

----------------------------------------------------------------------------
(* The main pipeline, src/app.py:183-292.                                   *)
(*                                                                          *)
(* A table is what get_clean_data returned: NoTable for None, else the      *)
(* column names in order and the rows, each a function from column name to  *)
(* cell.  Column names are strings; ColumnText gives the characters of the  *)
(* names the source searches by substring.                                  *)

SheetStock   == "Stock Items(RAW MATERIALS)"
SheetMan     == "MANUFACTURED PRODUCTS"
SheetProd    == "Products(Finished Goods)"
SheetRec     == "Products Recipes"
SheetModTypo == "Modifers"
SheetMod     == "Modifiers"
SheetEmp     == "Employee List"

SheetNames ==
    {SheetStock, SheetMan, SheetProd, SheetRec, SheetModTypo, SheetMod, SheetEmp}

PENALTY_CRITICAL == 10
PENALTY_MINOR == 1

\* The "-" that stands for the row of an issue about a whole sheet.
NoRow == 0

ExcelRow == "__excel_row__"

ColStockName == "RAW MATERIAL Product Name"
ColCost      == "Cost Price"
ColManName   == "MANUFACTURED Product Name"
ColProdName  == "Product Name"
ColSell      == "Selling Price (incl vat)"
ColMenu      == "Menu"
ColCategory  == "Menu Category"
ColPrep      == "Preparation Locations"
ColIng       == "RAW MATERIALS / MANUFACTURED PRODUCT NAME"
ColIngAlt    == "Raw Materials Name"
ColModGroup  == "Modifier Group Name"
ColOptions   == "Options"
ColEmpName   == "Employee Name"
ColLogin     == "Login Code"
ColRawOnly   == "RAW MATERIALS"

ColumnText ==
    [c \in {ColStockName, ColCost, ColManName, ColProdName, ColSell, ColMenu,
            ColCategory, ColPrep, ColIng, ColIngAlt, ColModGroup, ColOptions,
            ColEmpName, ColLogin, ColRawOnly, ExcelRow} |->
        CASE c = ColStockName -> <<"R", "A", "W", " ", "M", "A", "T", "E", "R", "I", "A", "L", " ", "P", "r", "o", "d", "u", "c", "t", " ", "N", "a", "m", "e">>
          [] c = ColCost      -> <<"C", "o", "s", "t", " ", "P", "r", "i", "c", "e">>
          [] c = ColManName   -> <<"M", "A", "N", "U", "F", "A", "C", "T", "U", "R", "E", "D", " ", "P", "r", "o", "d", "u", "c", "t", " ", "N", "a", "m", "e">>
          [] c = ColProdName  -> <<"P", "r", "o", "d", "u", "c", "t", " ", "N", "a", "m", "e">>
          [] c = ColSell      -> <<"S", "e", "l", "l", "i", "n", "g", " ", "P", "r", "i", "c", "e", " ", "(", "i", "n", "c", "l", " ", "v", "a", "t", ")">>
          [] c = ColMenu      -> <<"M", "e", "n", "u">>
          [] c = ColCategory  -> <<"M", "e", "n", "u", " ", "C", "a", "t", "e", "g", "o", "r", "y">>
          [] c = ColPrep      -> <<"P", "r", "e", "p", "a", "r", "a", "t", "i", "o", "n", " ", "L", "o", "c", "a", "t", "i", "o", "n", "s">>
          [] c = ColIng       -> <<"R", "A", "W", " ", "M", "A", "T", "E", "R", "I", "A", "L", "S", " ", "/", " ", "M", "A", "N", "U", "F", "A", "C", "T", "U", "R", "E", "D", " ", "P", "R", "O", "D", "U", "C", "T", " ", "N", "A", "M", "E">>
          [] c = ColIngAlt    -> <<"R", "a", "w", " ", "M", "a", "t", "e", "r", "i", "a", "l", "s", " ", "N", "a", "m", "e">>
          [] c = ColModGroup  -> <<"M", "o", "d", "i", "f", "i", "e", "r", " ", "G", "r", "o", "u", "p", " ", "N", "a", "m", "e">>
          [] c = ColOptions   -> <<"O", "p", "t", "i", "o", "n", "s">>
          [] c = ColEmpName   -> <<"E", "m", "p", "l", "o", "y", "e", "e", " ", "N", "a", "m", "e">>
          [] c = ColLogin     -> <<"L", "o", "g", "i", "n", " ", "C", "o", "d", "e">>
          [] c = ColRawOnly   -> <<"R", "A", "W", " ", "M", "A", "T", "E", "R", "I", "A", "L", "S">>
          [] c = ExcelRow     -> <<"_", "_", "e", "x", "c", "e", "l", "_", "r", "o", "w", "_", "_">>]

\* c in df.columns
HasColumn(t, c) == \E j \in 1..Len(t.columns) : t.columns[j] = c

\* [c for c in df.columns if P(c)], by position; 0 when there is none.
FirstColumn(t, P(_)) ==
    LET hits == {j \in 1..Len(t.columns) : P(t.columns[j])}
    IN  IF hits = {} THEN 0 ELSE CHOOSE j \in hits : \A k \in hits : j <= k

\* df is not None
IsTable(t) == t.state = "df"
\* df.empty
IsEmpty(t) == t.rows = <<>>

\* One entry of error_log.
Issue(type, sht, row, issue, fix) ==
    [Type |-> type, Sheet |-> sht, Row |-> row, Issue |-> issue, Fix |-> fix]

\* A faulty variant: the penalty is taken and the issue is not logged.
PenalizeUnlogged(st, weight, issue) ==
    [score |-> st.score - weight, log |-> st.log]

\* The running pair (quality_score, error_log).
\* quality_score -= weight; error_log.append(issue)
Penalize(st, weight, issue) ==
    [score |-> st.score - weight, log |-> Append(st.log, issue)]

\* pd.isna(val) or str(val).strip() == ""
IsBlank(v) == v = NaN \/ Strip(Str(v)) = <<>>

----------------------------------------------------------------------------
(* 1. Stock, src/app.py:209-223.                                            *)

EmptyStockIssue ==
    Issue("Critical", "Stock", NoRow, <<"NO STOCK FOUND">>, <<"Sheet is empty">>)

\* quality_score = 0; error_log.append(NO STOCK FOUND)
StockEmpty(st) == [score |-> 0, log |-> Append(st.log, EmptyStockIssue)]

\* The names a trusted table adds to valid_ingredients_set:
\* for name in df[col].dropna().astype(str): add(normalize_name(name)).
TrustedNames(t, col) ==
    {normalize_name(Str(t.rows[k][col])) :
        k \in {i \in 1..Len(t.rows) : t.rows[i][col] # NaN}}

MissingCostIssue(row) ==
    Issue("Critical", "Stock", row[ExcelRow], <<"Missing Cost Price">>,
          <<"Enter value">>)

\* The loop of src/app.py:220-223 from row k on.
RECURSIVE StockRows(_, _, _)
StockRows(t, k, st) ==
    IF k > Len(t.rows) THEN st
    ELSE StockRows(t, k + 1,
            IF t.rows[k][ColCost] = NaN
            THEN Penalize(st, PENALTY_CRITICAL, MissingCostIssue(t.rows[k]))
            ELSE st)

\* A faulty variant: a Stock sheet that failed to load is reported as empty.
StockCheckFailedAsEmpty(t, st) ==
    IF ~IsTable(t) \/ IsEmpty(t) THEN StockEmpty(st)
    ELSE IF HasColumn(t, ColCost) THEN StockRows(t, 1, st)
    ELSE st

\* What the Stock section does to (quality_score, error_log) once the
\* sheet is loaded.
StockCheck(t, st) ==
    IF ~IsTable(t) THEN st
    ELSE IF IsEmpty(t) THEN StockEmpty(st)
    ELSE IF HasColumn(t, ColCost) THEN StockRows(t, 1, st)
    ELSE st

\* What a trusted table (Stock, Manufactured) does to valid_ingredients_set.
TrustedUniverse(t, col, universe) ==
    IF IsTable(t) /\ ~IsEmpty(t)
    THEN universe \cup TrustedNames(t, col)
    ELSE universe

----------------------------------------------------------------------------
(* 3. Products, src/app.py:234-250.                                         *)

EmptyProductsIssue ==
    Issue("Critical", "Products", NoRow, <<"NO PRODUCTS">>, <<"Sheet empty">>)

\* quality_score = 0; error_log.append(NO PRODUCTS)
ProductsEmpty(st) == [score |-> 0, log |-> Append(st.log, EmptyProductsIssue)]

required_cols == <<ColSell, ColMenu, ColCategory, ColPrep>>

MissingFieldIssue(row, col) ==
    Issue("Critical", "Products", row[ExcelRow],
          <<"Missing ">> \o ColumnText[col], <<"Required Field">>)

\* for col in required_cols, from the j-th on, for one row.
RECURSIVE ProductFields(_, _, _, _)
ProductFields(t, row, j, st) ==
    IF j > Len(required_cols) THEN st
    ELSE ProductFields(t, row, j + 1,
            IF HasColumn(t, required_cols[j]) /\ IsBlank(row[required_cols[j]])
            THEN Penalize(st, PENALTY_CRITICAL,
                          MissingFieldIssue(row, required_cols[j]))
            ELSE st)

\* for _, row in df_prod.iterrows(), from row k on.
RECURSIVE ProductRows(_, _, _)
ProductRows(t, k, st) ==
    IF k > Len(t.rows) THEN st
    ELSE ProductRows(t, k + 1, ProductFields(t, t.rows[k], 1, st))

ProductsCheck(t, st) ==
    IF ~IsTable(t) THEN st
    ELSE IF IsEmpty(t) THEN ProductsEmpty(st)
    ELSE ProductRows(t, 1, st)

----------------------------------------------------------------------------
(* 4. Recipes, src/app.py:252-265.                                          *)

\* "RAW MATERIAL" in c.upper() and "NAME" in c.upper()
IsIngredientCandidate(c) ==
    /\ Contains(Upper(ColumnText[c]), <<"R", "A", "W", " ", "M", "A", "T", "E", "R", "I", "A", "L">>)
    /\ Contains(Upper(ColumnText[c]), <<"N", "A", "M", "E">>)

\* col_ing after src/app.py:255-259.
IngredientColumn(t) ==
    IF HasColumn(t, ColIng) THEN ColIng
    ELSE IF FirstColumn(t, IsIngredientCandidate) # 0
         THEN t.columns[FirstColumn(t, IsIngredientCandidate)]
         ELSE ColIng

GhostIssue(row, col) ==
    Issue("Critical", "Recipes", row[ExcelRow],
          <<"Ghost Item: '">> \o Str(row[col]) \o <<"'">>,
          <<"Not found in Stock/Manufactured">>)

\* if ing and ing not in valid_ingredients_set
IsGhost(v, universe) ==
    normalize_name(v) # <<>> /\ normalize_name(v) \notin universe

\* for _, row in df_rec.iterrows(), from row k on.
RECURSIVE RecipeRows(_, _, _, _, _)
RecipeRows(t, col, universe, k, st) ==
    IF k > Len(t.rows) THEN st
    ELSE RecipeRows(t, col, universe, k + 1,
            IF IsGhost(t.rows[k][col], universe)
            THEN Penalize(st, PENALTY_CRITICAL, GhostIssue(t.rows[k], col))
            ELSE st)

RecipesCheck(t, universe, st) ==
    IF ~IsTable(t) THEN st
    ELSE IF HasColumn(t, IngredientColumn(t)) /\ universe # {}
         THEN RecipeRows(t, IngredientColumn(t), universe, 1, st)
         ELSE st

----------------------------------------------------------------------------
(* 6. Employees, src/app.py:273-281.                                        *)

\* str(row["Login Code"]).strip().replace('.0', '')
LoginCode(v) == RemoveAll(Strip(Str(v)), <<".", "0">>, FALSE)

PinIssue(row) ==
    Issue("Warning", "Employees", row[ExcelRow],
          <<"Invalid PIN '">> \o LoginCode(row[ColLogin]) \o <<"'">>,
          <<"Must be 4 digits">>)

\* not code.isdigit() or len(code) < 4
IsInvalidPin(code) == ~IsDigit(code) \/ Len(code) < 4

RECURSIVE EmployeeRows(_, _, _)
EmployeeRows(t, k, st) ==
    IF k > Len(t.rows) THEN st
    ELSE EmployeeRows(t, k + 1,
            IF IsInvalidPin(LoginCode(t.rows[k][ColLogin]))
            THEN Penalize(st, PENALTY_MINOR, PinIssue(t.rows[k]))
            ELSE st)

EmployeesCheck(t, st) ==
    IF IsTable(t) /\ HasColumn(t, ColLogin) THEN EmployeeRows(t, 1, st) ELSE st

----------------------------------------------------------------------------
(* check_restaurant_logic, src/app.py:107-157.                              *)
(*                                                                          *)
(* The percentage and the prices that the source formats into the text of   *)
(* a finding are left out of the text here; nothing reads them back.        *)

DigitValue(c) == CHOOSE n \in 0..9 : DigitText[n + 1] = c

RECURSIVE ToInt(_)
ToInt(s) ==
    IF s = <<>> THEN 0
    ELSE 10 * ToInt(SubSeq(s, 1, Len(s) - 1)) + DigitValue(s[Len(s)])

\* float(v) raises ValueError
FloatRaises(v) == v # NaN /\ ~IsDigit(Strip(v))

\* float(v) > 0, for a v that float accepts (nan > 0 is False)
FloatPositive(v) == v # NaN /\ ToInt(Strip(v)) > 0

LogicIssue(category, item, issue, advice) ==
    [Category |-> category, Item |-> item, Issue |-> issue, Advice |-> advice]

\* "Cost Price" in c
IsCostColumn(c) == Contains(ColumnText[c], <<"C", "o", "s", "t", " ", "P", "r", "i", "c", "e">>)
\* "Modifier Group Name" in c
IsModGroupColumn(c) == Contains(ColumnText[c], <<"M", "o", "d", "i", "f", "i", "e", "r", " ", "G", "r", "o", "u", "p", " ", "N", "a", "m", "e">>)
\* "Options" in c
IsOptionsColumn(c) == Contains(ColumnText[c], <<"O", "p", "t", "i", "o", "n", "s">>)

\* The body of the loop of src/app.py:114-135 for one row: the findings
\* it appends.
MarginFindings(t, row, cost_col) ==
    LET sellv == row[ColSell]
        costv == row[cost_col]
    IN  IF FloatRaises(sellv) \/ FloatRaises(costv) THEN <<>>
        ELSE IF ~(FloatPositive(sellv) /\ FloatPositive(costv)) THEN <<>>
        ELSE LET sell == ToInt(Strip(sellv))
                 cost == ToInt(Strip(costv))
             IN  \* gp = ((sell - cost) / sell) * 100
                 IF sell - cost < 0
                 THEN <<LogicIssue("Profitability", row[t.columns[1]],
                                   <<"Negative Margin">>, <<"Cost > Sell">>)>>
                 ELSE IF (sell - cost) * 100 < 15 * sell
                 THEN <<LogicIssue("Profitability", row[t.columns[1]],
                                   <<"Low Margin">>,
                                   <<"Margin below 15%. Confirm Cost Price.">>)>>
                 ELSE <<>>

RECURSIVE MarginRows(_, _, _)
MarginRows(t, cost_col, k) ==
    IF k > Len(t.rows) THEN <<>>
    ELSE MarginFindings(t, t.rows[k], cost_col) \o MarginRows(t, cost_col, k + 1)

\* Costing Logic
CostingLogic(t) ==
    IF IsTable(t) /\ HasColumn(t, ColSell) /\ FirstColumn(t, IsCostColumn) # 0
    THEN MarginRows(t, t.columns[FirstColumn(t, IsCostColumn)], 1)
    ELSE <<>>

\* any(k in group_name for k in ["SIZE", "VOLUME"]) or
\* any(k in option_name for k in ["SMALL", "MEDIUM", "LARGE"])
LooksLikeSize(group_name, option_name) ==
    \/ \E k \in {<<"S", "I", "Z", "E">>, <<"V", "O", "L", "U", "M", "E">>} : Contains(group_name, k)
    \/ \E k \in {<<"S", "M", "A", "L", "L">>, <<"M", "E", "D", "I", "U", "M">>, <<"L", "A", "R", "G", "E">>} : Contains(option_name, k)

\* The loop of src/app.py:143-155 from row k on; it breaks at the first
\* finding.
RECURSIVE ModifierRows(_, _, _, _)
ModifierRows(t, mod_col, opt, k) ==
    IF k > Len(t.rows) THEN <<>>
    ELSE LET row == t.rows[k]
             group_name == Upper(Str(row[mod_col]))
             option_name == IF opt # 0 THEN Upper(Str(row[t.columns[opt]]))
                            ELSE <<>>
         IN  IF LooksLikeSize(group_name, option_name)
             THEN <<LogicIssue("Menu Structure", row[mod_col],
                               <<"Sizes used as Modifiers">>,
                               <<"Use VARIANTS for sizes to track stock.">>)>>
             ELSE ModifierRows(t, mod_col, opt, k + 1)

\* Modifier Logic
ModifierLogic(t) ==
    IF IsTable(t) /\ ~IsEmpty(t) /\ FirstColumn(t, IsModGroupColumn) # 0
    THEN ModifierRows(t, t.columns[FirstColumn(t, IsModGroupColumn)],
                      FirstColumn(t, IsOptionsColumn), 1)
    ELSE <<>>

check_restaurant_logic(prod, mod) == CostingLogic(prod) \o ModifierLogic(mod)

\* A faulty variant: the clamp at 0 is missing.
NoClamp(score) == score

\* max(0, int(quality_score))
Clamp(score) == IF score < 0 THEN 0 ELSE score

----------------------------------------------------------------------------
(* The results get_clean_data can hand to each section of the pipeline.     *)
(* The header of every table is the first physical row, so the k-th row     *)
(* has __excel_row__ k + 1.  A loaded table has its identity column, named  *)
(* as the section reads it, and no separable placeholder rows.              *)

\* A local that is not bound yet.
Unbound == [state |-> "unbound", columns |-> <<>>, rows |-> <<>>]

Table(columns, rs) ==
    [state |-> "df",
     columns |-> Append(columns, ExcelRow),
     rows |-> [k \in 1..Len(rs) |-> rs[k] @@ (ExcelRow :> k + 1)]]

StockRowKinds ==
    { (ColStockName :> <<"F", "l", "o", "u", "r", " ", "(", "R", "A", "W", ")">>) @@ (ColCost :> <<"5">>),
      (ColStockName :> <<"S", "a", "l", "t">>) @@ (ColCost :> NaN) }

StockLoads ==
    {NoTable}
    \cup {Table(<<ColStockName, ColCost>>, rs) : rs \in SeqUpTo(StockRowKinds, MaxRows)}
    \cup {Table(<<ColStockName>>, <<(ColStockName :> <<"F", "l", "o", "u", "r", " ", "(", "R", "A", "W", ")">>)>>)}

ManRowKinds == { (ColManName :> <<"S", "a", "u", "c", "e", "(", "M", "A", "N", ")">>) }

ManLoads ==
    {NoTable}
    \cup {Table(<<ColManName>>, rs) : rs \in SeqUpTo(ManRowKinds, MaxSideRows)}

ProductRow(product, sell, cost, menu, category, prep) ==
    (ColProdName :> product) @@ (ColSell :> sell) @@ (ColCost :> cost)
    @@ (ColMenu :> menu) @@ (ColCategory :> category) @@ (ColPrep :> prep)

\* A complete row at a low margin, a row sold under cost with no menu, a
\* row with every required field blank.
ProductRowKinds ==
    { ProductRow(<<"B", "u", "r", "g", "e", "r">>, <<"1", "0">>, <<"9">>, <<"F", "o", "o", "d">>, <<"M", "a", "i", "n", "s">>, <<"K", "i", "t", "c", "h", "e", "n">>),
      ProductRow(<<"C", "h", "i", "p", "s">>, <<"1", "0">>, <<"1", "2">>, NaN, <<"S", "i", "d", "e", "s">>, <<"K", "i", "t", "c", "h", "e", "n">>),
      ProductRow(<<"C", "o", "l", "a">>, <<" ">>, NaN, NaN, NaN, <<" ">>) }

ProductLoads ==
    {NoTable}
    \cup {Table(<<ColProdName, ColSell, ColCost, ColMenu, ColCategory, ColPrep>>, rs) :
            rs \in SeqUpTo(ProductRowKinds, MaxRows)}
    \cup {Table(<<ColProdName, ColMenu>>,
                <<(ColProdName :> <<"B", "u", "r", "g", "e", "r">>) @@ (ColMenu :> NaN)>>)}

\* References to the stock item and to the manufactured item, and a
\* reference that is nothing but a tag.
RecipeRefs == {<<"F", "l", "o", "u", "r", "(", "r", "a", "w", ")">>, <<"S", "a", "u", "c", "e">>, TagRaw}

RecipeLoads ==
    {NoTable}
    \cup {Table(<<ColProdName, ColIng>>,
                [k \in 1..Len(rs) |-> (ColProdName :> <<"B", "u", "r", "g", "e", "r">>) @@ (ColIng :> rs[k])]) :
            rs \in SeqUpTo(RecipeRefs, MaxSideRows)}
    \cup {Table(<<ColIngAlt>>, <<(ColIngAlt :> <<"S", "a", "u", "c", "e">>)>>),
          Table(<<ColRawOnly>>, <<(ColRawOnly :> <<"S", "a", "u", "c", "e">>)>>)}

ModRowKinds == { (ColModGroup :> <<"S", "i", "z", "e">>) @@ (ColOptions :> <<"S", "m", "a", "l", "l">>) }

ModLoads ==
    {NoTable}
    \cup {Table(<<ColModGroup, ColOptions>>, rs) : rs \in SeqUpTo(ModRowKinds, MaxSideRows)}

LoginCodes == {<<"1", "2", "3", "4", ".", "0">>, <<"1", "2">>, <<"1", "2", "a">>}

EmployeeLoads ==
    {NoTable}
    \cup {Table(<<ColEmpName, ColLogin>>,
                [k \in 1..Len(rs) |-> (ColEmpName :> <<"A", "n", "n">>) @@ (ColLogin :> rs[k])]) :
            rs \in SeqUpTo(LoginCodes, MaxSideRows)}
    \cup {Table(<<ColEmpName>>, <<(ColEmpName :> <<"A", "n", "n">>)>>)}

----------------------------------------------------------------------------
(* The run.  pc names the section of src/app.py:183-292 to execute next.    *)

tables == <<df_stock, df_man, df_prod, df_rec, df_emp, df_prod_global, df_mod_global>>

\* src/app.py:189-191: no visible sheet, st.stop().
Stop ==
    /\ pc = "start"
    /\ visible_sheets = {}
    /\ pc' = "stopped"
    /\ UNCHANGED <<visible_sheets, quality_score, error_log, logic_log,
                   valid_ingredients_set, tables>>
    /\ UNCHANGED <<normVars, loadVars>>

\* src/app.py:196-205: INIT VARIABLES.
Start ==
    /\ pc = "start"
    /\ visible_sheets # {}
    /\ quality_score' = 100
    /\ error_log' = <<>>
    /\ logic_log' = <<>>
    /\ valid_ingredients_set' = {}
    /\ df_prod_global' = NoTable
    /\ df_mod_global' = NoTable
    /\ pc' = "stock"
    /\ UNCHANGED <<visible_sheets, df_stock, df_man, df_prod, df_rec, df_emp>>
    /\ UNCHANGED <<normVars, loadVars>>

\* src/app.py:209-223.
Stock ==
    /\ pc = "stock"
    /\ IF SheetStock \in visible_sheets
       THEN \E t \in StockLoads :
              LET st == StockCheck(t, [score |-> quality_score, log |-> error_log])
              IN  /\ df_stock' = t
                  /\ quality_score' = st.score
                  /\ error_log' = st.log
                  /\ valid_ingredients_set' =
                        TrustedUniverse(t, ColStockName, valid_ingredients_set)
       ELSE UNCHANGED <<df_stock, quality_score, error_log, valid_ingredients_set>>
    /\ pc' = "man"
    /\ UNCHANGED <<visible_sheets, logic_log, df_man, df_prod, df_rec, df_emp,
                   df_prod_global, df_mod_global>>
    /\ UNCHANGED <<normVars, loadVars>>

\* src/app.py:227-232.
Manufactured ==
    /\ pc = "man"
    /\ IF SheetMan \in visible_sheets
       THEN \E t \in ManLoads :
              /\ df_man' = t
              /\ valid_ingredients_set' =
                    TrustedUniverse(t, ColManName, valid_ingredients_set)
       ELSE UNCHANGED <<df_man, valid_ingredients_set>>
    /\ pc' = "prod"
    /\ UNCHANGED <<visible_sheets, quality_score, error_log, logic_log, df_stock,
                   df_prod, df_rec, df_emp, df_prod_global, df_mod_global>>
    /\ UNCHANGED <<normVars, loadVars>>

\* src/app.py:234-250.
Products ==
    /\ pc = "prod"
    /\ IF SheetProd \in visible_sheets
       THEN \E t \in ProductLoads :
              LET st == ProductsCheck(t, [score |-> quality_score, log |-> error_log])
              IN  /\ df_prod' = t
                  /\ df_prod_global' = t
                  /\ quality_score' = st.score
                  /\ error_log' = st.log
       ELSE UNCHANGED <<df_prod, df_prod_global, quality_score, error_log>>
    /\ pc' = "rec"
    /\ UNCHANGED <<visible_sheets, logic_log, valid_ingredients_set, df_stock,
                   df_man, df_rec, df_emp, df_mod_global>>
    /\ UNCHANGED <<normVars, loadVars>>

\* src/app.py:252-265.
Recipes ==
    /\ pc = "rec"
    /\ IF SheetRec \in visible_sheets
       THEN \E t \in RecipeLoads :
              LET st == RecipesCheck(t, valid_ingredients_set,
                                     [score |-> quality_score, log |-> error_log])
              IN  /\ df_rec' = t
                  /\ quality_score' = st.score
                  /\ error_log' = st.log
       ELSE UNCHANGED <<df_rec, quality_score, error_log>>
    /\ pc' = "mod"
    /\ UNCHANGED <<visible_sheets, logic_log, valid_ingredients_set, df_stock,
                   df_man, df_prod, df_emp, df_prod_global, df_mod_global>>
    /\ UNCHANGED <<normVars, loadVars>>

\* src/app.py:267-271.
Modifiers ==
    /\ pc = "mod"
    /\ IF SheetModTypo \in visible_sheets \/ SheetMod \in visible_sheets
       THEN \E t \in ModLoads : df_mod_global' = t
       ELSE UNCHANGED df_mod_global
    /\ pc' = "emp"
    /\ UNCHANGED <<visible_sheets, quality_score, error_log, logic_log,
                   valid_ingredients_set, df_stock, df_man, df_prod, df_rec,
                   df_emp, df_prod_global>>
    /\ UNCHANGED <<normVars, loadVars>>

\* src/app.py:273-281.
Employees ==
    /\ pc = "emp"
    /\ IF SheetEmp \in visible_sheets
       THEN \E t \in EmployeeLoads :
              LET st == EmployeesCheck(t, [score |-> quality_score, log |-> error_log])
              IN  /\ df_emp' = t
                  /\ quality_score' = st.score
                  /\ error_log' = st.log
       ELSE UNCHANGED <<df_emp, quality_score, error_log>>
    /\ pc' = "report"
    /\ UNCHANGED <<visible_sheets, logic_log, valid_ingredients_set, df_stock,
                   df_man, df_prod, df_rec, df_prod_global, df_mod_global>>
    /\ UNCHANGED <<normVars, loadVars>>

\* src/app.py:283-292: the logic check, then the clamp of the score.
Report ==
    /\ pc = "report"
    /\ logic_log' = check_restaurant_logic(df_prod_global, df_mod_global)
    /\ quality_score' = Clamp(quality_score)
    /\ pc' = "done"
    /\ UNCHANGED <<visible_sheets, error_log, valid_ingredients_set, df_stock,
                   df_man, df_prod, df_rec, df_emp, df_prod_global, df_mod_global>>
    /\ UNCHANGED <<normVars, loadVars>>

RunNext ==
    \/ Stop
    \/ Start
    \/ Stock
    \/ Manufactured
    \/ Products
    \/ Recipes
    \/ Modifiers
    \/ Employees
    \/ Report

----------------------------------------------------------------------------
(* The specifications.                                                      *)

\* normalize_name is applied, twice in a row, to one of NameInputs.
InitNorm ==
    /\ npc = "start"
    /\ name \in NameInputs
    /\ once = <<>>
    /\ twice = <<>>
    /\ lpc = "idle" /\ readable = TRUE /\ sheet = <<>>
    /\ matching_rows = <<>> /\ header_row_idx = -1
    /\ df = NoTable /\ err = None
    /\ pc = "idle" /\ visible_sheets = {} /\ quality_score = 0
    /\ error_log = <<>> /\ logic_log = <<>> /\ valid_ingredients_set = {}
    /\ df_stock = Unbound /\ df_man = Unbound /\ df_prod = Unbound
    /\ df_rec = Unbound /\ df_emp = Unbound
    /\ df_prod_global = Unbound /\ df_mod_global = Unbound

SpecNorm == InitNorm /\ [][NormNext]_vars

\* get_clean_data is called on one of Sheets, readable or not.
InitLoad ==
    /\ lpc = "call"
    /\ readable \in BOOLEAN
    /\ sheet \in Sheets
    /\ matching_rows = <<>>
    /\ header_row_idx = -1
    /\ df = NoTable
    /\ err = None
    /\ npc = "idle" /\ name = <<>> /\ once = <<>> /\ twice = <<>>
    /\ pc = "idle" /\ visible_sheets = {} /\ quality_score = 0
    /\ error_log = <<>> /\ logic_log = <<>> /\ valid_ingredients_set = {}
    /\ df_stock = Unbound /\ df_man = Unbound /\ df_prod = Unbound
    /\ df_rec = Unbound /\ df_emp = Unbound
    /\ df_prod_global = Unbound /\ df_mod_global = Unbound

SpecLoad == InitLoad /\ [][LoadNext]_vars

\* A file is uploaded; get_visible_sheet_names returns any set of the
\* sheets the pipeline knows ([] when the workbook cannot be opened).
Init ==
    /\ pc = "start"
    /\ visible_sheets \in SUBSET SheetNames
    /\ quality_score = 0
    /\ error_log = <<>>
    /\ logic_log = <<>>
    /\ valid_ingredients_set = {}
    /\ df_stock = Unbound /\ df_man = Unbound /\ df_prod = Unbound
    /\ df_rec = Unbound /\ df_emp = Unbound
    /\ df_prod_global = Unbound /\ df_mod_global = Unbound
    /\ npc = "idle" /\ name = <<>> /\ once = <<>> /\ twice = <<>>
    /\ lpc = "idle" /\ readable = TRUE /\ sheet = <<>>
    /\ matching_rows = <<>> /\ header_row_idx = -1
    /\ df = NoTable /\ err = None

Next == RunNext

Spec == Init /\ [][Next]_vars

----------------------------------------------------------------------------
(* Properties.                                                              *)

Max(a, b) == IF a > b THEN a ELSE b

\* The sections of the pipeline have run up to and including Recipes.
AfterRecipes == pc \in {"mod", "emp", "report", "done"}
\* The sections have run up to and including Employees.
AfterEmployees == pc \in {"report", "done"}
\* The score is the running score: initialised and not clamped yet.
Running == pc \in {"stock", "man", "prod", "rec", "mod", "emp", "report"}

\* The issues of error_log about one sheet.
IssuesOf(sht) == {i \in 1..Len(error_log) : error_log[i].Sheet = sht}

IsEmptyTableIssue(e) == e.Row = NoRow /\ e.Type = "Critical"

\* Positions of the EmptyTable issues of the mandatory tables.
MandatoryEmpty ==
    {i \in 1..Len(error_log) :
        /\ IsEmptyTableIssue(error_log[i])
        /\ error_log[i].Sheet \in {"Stock", "Products"}}

Weight(e) ==
    IF e.Type = "Critical" THEN PENALTY_CRITICAL
    ELSE IF e.Type = "Warning" THEN PENALTY_MINOR
    ELSE 0

\* The sum of the weights of error_log[from..].
RECURSIVE WeightsFrom(_)
WeightsFrom(from) ==
    IF from > Len(error_log) THEN 0
    ELSE Weight(error_log[from]) + WeightsFrom(from + 1)

\* C1: at the end of every run the score is an integer in 0..100, and it
\* is 0 whenever an EmptyTable issue was raised for Stock or Products,
\* whatever was checked before or after.
C1_ScoreRange ==
    pc = "done" =>
        /\ quality_score \in 0..100
        /\ (MandatoryEmpty # {} => quality_score = 0)

\* A finished run in which Stock was empty and later sections added issues.
C1_Witness ==
    /\ pc = "done"
    /\ error_log # <<>>
    /\ error_log[1] = EmptyStockIssue
    /\ Len(error_log) >= 3
    /\ quality_score = 0

\* The reference of recipe row k, and whether a Ghost Item issue names it.
RecipeRef(k) == df_rec.rows[k][IngredientColumn(df_rec)]

GhostLogged(k) ==
    \E i \in IssuesOf("Recipes") :
        /\ error_log[i].Type = "Critical"
        /\ error_log[i].Row = df_rec.rows[k][ExcelRow]

\* "EXAMPLE" / "EXAMPLES", case-insensitive, trimmed.
IsSentinel(v) ==
    v # NaN /\ Upper(Strip(v)) \in {Example, Example \o <<"S">>}

RecipesChecked ==
    /\ AfterRecipes
    /\ IsTable(df_rec)
    /\ HasColumn(df_rec, IngredientColumn(df_rec))

\* C2: a recipe row gets a Ghost Item issue if and only if its reference
\* is non-empty once normalized, is not a placeholder, and is not in the
\* universe built from Stock and Manufactured -- the universe being empty
\* when those tables are absent.
C2_GhostIff ==
    RecipesChecked =>
        \A k \in 1..Len(df_rec.rows) :
            GhostLogged(k) <=>
                /\ normalize_name(RecipeRef(k)) # <<>>
                /\ ~IsSentinel(RecipeRef(k))
                /\ normalize_name(RecipeRef(k)) \notin valid_ingredients_set

\* C3: normalize_name is idempotent.
C3_Idempotent == npc = "twice" => twice = once

\* The rows of the scan window in which the marker occurs: a cell,
\* whitespace-collapsed and trimmed, contains it, case-insensitively.
MarkerRows ==
    {i \in 0..(Min(Len(sheet), NROWS) - 1) :
        \E j \in 1..Len(sheet[i + 1]) :
            Contains(Upper(Strip(CollapseWS(Str(sheet[i + 1][j])))),
                     Upper(ProductMarker))}

\* C4: the header row is the last row of the scan window in which the
\* marker occurs, and the table is built from that row and the rows below
\* it; when no row of the window has the marker the result is no table and
\* the error message.
C4_LastHeaderWins ==
    (lpc = "returned" /\ readable) =>
        IF MarkerRows = {}
        THEN df = NoTable /\ err = NotFoundError(ProductMarker)
        ELSE /\ \A i \in MarkerRows : i <= header_row_idx
             /\ header_row_idx \in MarkerRows
             /\ IsTable(df)
             /\ err = None
             /\ df.columns = Columns(sheet[header_row_idx + 1])
             /\ \A k \in 1..Len(df.rows) :
                    /\ df.rows[k].excel_row > header_row_idx + 1
                    /\ df.rows[k].cells = sheet[df.rows[k].excel_row]

\* The marker occurs twice in the window and once more below it; the
\* second occurrence is the header.
C4_Witness ==
    /\ lpc = "returned"
    /\ readable
    /\ Len(matching_rows) >= 2
    /\ header_row_idx = NROWS - 1
    /\ Len(sheet) > NROWS
    /\ RowMatches(sheet[NROWS + 1], ProductMarker)
    /\ IsTable(df)

Sections == {"stock", "man", "prod", "rec", "mod", "emp"}

Successor(p) ==
    CASE p = "stock" -> "man"
      [] p = "man"   -> "prod"
      [] p = "prod"  -> "rec"
      [] p = "rec"   -> "mod"
      [] p = "mod"   -> "emp"
      [] p = "emp"   -> "report"

\* The section p has just run and get_clean_data gave it no table.
LoadFailed(p) ==
    /\ pc = p
    /\ CASE p = "stock" -> SheetStock \in visible_sheets /\ df_stock' = NoTable
         [] p = "man"   -> SheetMan \in visible_sheets /\ df_man' = NoTable
         [] p = "prod"  -> SheetProd \in visible_sheets /\ df_prod' = NoTable
         [] p = "rec"   -> SheetRec \in visible_sheets /\ df_rec' = NoTable
         [] p = "mod"   -> /\ visible_sheets \cap {SheetModTypo, SheetMod} # {}
                           /\ df_mod_global' = NoTable
         [] p = "emp"   -> SheetEmp \in visible_sheets /\ df_emp' = NoTable

\* C5: a section whose table failed to load adds no issue, leaves the
\* score and the universe as they were, hands nothing to the logic check,
\* and passes control to the next section: the run goes on from the state
\* it would be in had the sheet not been there.
C5_FailureIsolated ==
    [][\A p \in Sections :
          LoadFailed(p) =>
              /\ quality_score' = quality_score
              /\ error_log' = error_log
              /\ valid_ingredients_set' = valid_ingredients_set
              /\ logic_log' = logic_log
              /\ df_prod_global' = df_prod_global
              /\ df_mod_global' = df_mod_global
              /\ pc' = Successor(p)]_vars

\* A finished run in which Stock failed to load and a later table was
\* still validated and found wanting.
C5_Witness ==
    /\ pc = "done"
    /\ SheetStock \in visible_sheets
    /\ df_stock = NoTable
    /\ IssuesOf("Stock") = {}
    /\ IssuesOf("Products") # {}
    /\ quality_score < 100

\* The names of the trusted tables that are visible and loaded.
VisibleUniverse ==
    (IF IsTable(df_stock) THEN TrustedNames(df_stock, ColStockName) ELSE {})
    \cup (IF IsTable(df_man) THEN TrustedNames(df_man, ColManName) ELSE {})

\* C6: with a trusted sheet hidden, the universe holds the names of the
\* visible trusted sheets only, and every recipe reference outside it is
\* reported as a Ghost Item -- also when both trusted sheets are hidden.
C6_HiddenSheet ==
    (RecipesChecked /\ {SheetStock, SheetMan} \ visible_sheets # {}) =>
        /\ valid_ingredients_set = VisibleUniverse
        /\ \A k \in 1..Len(df_rec.rows) :
              ( /\ normalize_name(RecipeRef(k)) # <<>>
                /\ normalize_name(RecipeRef(k)) \notin VisibleUniverse )
              => GhostLogged(k)

\* The identity value is empty, blank, or a placeholder sentinel.
IsPlaceholderOrEmpty(v) ==
    v = NaN \/ Strip(Str(v)) = <<>> \/ IsSentinel(v)

\* C7: with the identity column resolved, a row below the header is dropped
\* from the table if and only if its identity value is empty, blank or a
\* sentinel ("EXAMPLE"/"EXAMPLES", case-insensitive, trimmed).
C7_PlaceholderFilter ==
    (lpc = "returned" /\ IsTable(df) /\ TargetCol(df.columns, ProductMarker) # 0) =>
        \A r \in (header_row_idx + 2)..Len(sheet) :
            (\E k \in 1..Len(df.rows) : df.rows[k].excel_row = r)
            <=> ~IsPlaceholderOrEmpty(sheet[r][TargetCol(df.columns, ProductMarker)])

\* The code left-zero-padded to four digits.
RECURSIVE ZeroPad(_)
ZeroPad(code) == IF Len(code) >= 4 THEN code ELSE ZeroPad(<<"0">> \o code)

EmployeeIssues(k) ==
    {i \in IssuesOf("Employees") : error_log[i].Row = df_emp.rows[k][ExcelRow]}

\* C8: a Login Code that is not all digits gets a Critical issue with no
\* suggested fix; an all-digit code shorter than 4 gets a Warning whose
\* fix is the code zero-padded to 4; an all-digit code of length 4 gets no
\* issue.
C8_LoginCodeRule ==
    (AfterEmployees /\ IsTable(df_emp) /\ HasColumn(df_emp, ColLogin)) =>
        \A k \in 1..Len(df_emp.rows) :
            LET code == LoginCode(df_emp.rows[k][ColLogin])
            IN  /\ ~IsDigit(code) =>
                      \E i \in EmployeeIssues(k) :
                          /\ error_log[i].Type = "Critical"
                          /\ error_log[i].Fix \in {<<>>, None}
                /\ (IsDigit(code) /\ Len(code) < 4) =>
                      \E i \in EmployeeIssues(k) :
                          /\ error_log[i].Type = "Warning"
                          /\ error_log[i].Fix = ZeroPad(code)
                /\ (IsDigit(code) /\ Len(code) = 4) => EmployeeIssues(k) = {}

\* The six tables, with the sheet name their issues carry.
LoadedTables ==
    <<[t |-> df_stock, sht |-> "Stock"], [t |-> df_man, sht |-> "Manufactured"],
      [t |-> df_prod, sht |-> "Products"], [t |-> df_rec, sht |-> "Recipes"],
      [t |-> df_mod_global, sht |-> "Modifiers"], [t |-> df_emp, sht |-> "Employees"]>>

\* C9: every table whose header is found and whose rows are all filtered
\* out gets exactly one issue, the EmptyTable Critical issue, and no
\* per-row issue.
C9_EmptyTable ==
    pc = "done" =>
        \A n \in 1..Len(LoadedTables) :
            (IsTable(LoadedTables[n].t) /\ IsEmpty(LoadedTables[n].t)) =>
                /\ Cardinality(IssuesOf(LoadedTables[n].sht)) = 1
                /\ \A i \in IssuesOf(LoadedTables[n].sht) :
                      IsEmptyTableIssue(error_log[i])

\* What the log says the final score is.
ScoreOfLog ==
    IF MandatoryEmpty # {} THEN 0 ELSE Max(0, 100 - WeightsFrom(1))

\* C10 as stated: the final score is 0 after a mandatory EmptyTable and
\* max(0, 100 - 10 * Critical - Warning) otherwise, and every issue in the
\* log is matched by one deduction of its weight, so that the running
\* score is 100 less the weights of the issues logged so far.
C10_Original ==
    /\ pc = "done" => quality_score = ScoreOfLog
    /\ Running => quality_score = 100 - WeightsFrom(1)

\* C10, amended: an EmptyTable issue of a mandatory table is matched by no
\* deduction: it sets the running score to 0.  Every other issue is
\* matched by one deduction of its weight, so the running score is 100, or
\* 0 from the last such EmptyTable issue on, less the weights of the issues
\* logged (after it); the final score is a function of the log alone,
\* whatever the logic check finds.
C10_ScoreAccounting ==
    /\ pc = "done" => quality_score = ScoreOfLog
    /\ Running =>
          quality_score =
              IF MandatoryEmpty = {} THEN 100 - WeightsFrom(1)
              ELSE 0 - WeightsFrom(1 + CHOOSE i \in MandatoryEmpty :
                                          \A j \in MandatoryEmpty : j <= i)

\* A finished run with no EmptyTable issue, more than 100 points of
\* penalties, and findings of the logic check.
C10_Witness ==
    /\ pc = "done"
    /\ MandatoryEmpty = {}
    /\ WeightsFrom(1) > 100
    /\ \E i \in 1..Len(error_log) : error_log[i].Type = "Warning"
    /\ logic_log # <<>>
    /\ quality_score = 0

============================================================================
